---- MODULE Spec2Model ----
(***************************************************************************)
(* Model of backend/main.py of the AI video editor: the in-memory job     *)
(* store `jobs`, the files under TEMP_DIR, the submission handler          *)
(* edit_video, the background pipeline process_video, the sweep            *)
(* cleanup_old_jobs and the two read-only handlers get_job_status and      *)
(* download_video.                                                         *)
(*                                                                         *)
(* Scheduling.  Every handler and background task is an `async def` run on *)
(* one asyncio event loop, so code between two awaits runs without         *)
(* interleaving.  The variable `running` holds the submission whose        *)
(* background chain currently occupies the loop (empty: the loop is free). *)
(* process_video suspends only at `await call_qwen_api` (main.py:153);     *)
(* ffmpeg.run (main.py:192) is a blocking call.  The two background tasks  *)
(* of one submission (main.py:295-296) run one after the other in the      *)
(* same chain, and an exception that leaves process_video ends the chain;  *)
(* cleanup_old_jobs contains no await.  The handlers get_job_status and    *)
(* download_video only read: their responses are the operators             *)
(* StatusResponse and DownloadResponse of the current state.               *)
(*                                                                         *)
(* Environment.  The calls whose failure the code handles can fail: the    *)
(* instruction lookup, the transcode, open/write/remove of the upload,     *)
(* os.remove of the input file and unlink of the output file.              *)
(***************************************************************************)
EXTENDS Integers, Sequences, FiniteSets, TLC

\* ---- bounds of the model ----
MaxJobs == 2
MaxTicks == 2
\* the number of words a submitted prompt is put together from
MaxWords == 2

\* ---- program constants ----
MAX_FILE_SIZE == 500 * 1024 * 1024
RETENTION == 3600
ERROR_LIMIT == 500
CHUNK == 8192
MAX_PROMPT == 2000

JobIds == 1 .. MaxJobs
\* Python's None for Optional fields; a present value v is the tuple <<...>> of its parts
None == << >>
\* the clock moves in steps of one retention window, so that ages of exactly 3600 s
\* (kept) and of more than 3600 s (evicted) both occur
TickStep == RETENTION

ALLOWED_VIDEO_TYPES ==
    {"video/mp4", "video/webm", "video/quicktime", "video/x-msvideo", "video/x-matroska"}
\* content types a client may send; "" stands for a missing content type
ContentTypes == {"video/mp4", "text/plain", ""}
\* upload sizes in bytes
UploadSizes == {0, CHUNK, MAX_FILE_SIZE, MAX_FILE_SIZE + 1}
\* the I/O call of the upload loop that raises, if any
Faults == {"none", "open", "write", "remove"}
\* The submissions a client makes: without a video; with a video of a content type
\* that is refused (its size and the disk play no part); with a video of an accepted
\* content type, of any size, with any fault while it is saved.
Submissions ==
    {[video |-> FALSE, content_type |-> "", size |-> 0, fault |-> "none"]}
    \cup {[video |-> TRUE, content_type |-> c, size |-> CHUNK, fault |-> "none"] :
             c \in ContentTypes \ ALLOWED_VIDEO_TYPES}
    \cup {[video |-> TRUE, content_type |-> c, size |-> n, fault |-> f] :
             c \in ContentTypes \cap ALLOWED_VIDEO_TYPES, n \in UploadSizes, f \in Faults}
\* lengths of the stderr text an ffmpeg.Error carries: long enough for the message to
\* exceed the limit (the short message is that of a missing output file)
StderrLens == {ERROR_LIMIT + 1}
Terminal == {"completed", "failed"}

VARIABLES
    jobs,      \* the dict `jobs`: a function from the ids in the store to job records
    files,     \* the files that exist under TEMP_DIR
    used,      \* the job ids uuid4 has generated so far
    pc,        \* position of each submission's background chain
    exc,       \* the exception in flight in each process_video instance (None: none)
    running,   \* the chain that occupies the event loop: {} or {j}
    now,       \* time.time()
    swallowed, \* the files whose deletion raised an exception that was swallowed
    ai_response,       \* the local `ai_response` of each process_video instance
    prompt,            \* the `prompt` form field of the submission being handled
    sanitized_prompt   \* the prompts edit_video has handed to process_video, in order

vars ==
    <<jobs, files, used, pc, exc, running, now, swallowed,
      ai_response, prompt, sanitized_prompt>>

video_path(j) == <<j, "_input.mp4">>
output_path(j) == <<j, "_output.mp4">>

Min(a, b) == IF a < b THEN a ELSE b
\* uuid.uuid4(): an identifier never generated before (the least unused one stands
\* for it: identifiers are opaque, so which fresh one is drawn does not matter)
uuid4 == CHOOSE j \in JobIds \ used : \A k \in JobIds \ used : j <= k

\* ---- job records -------------------------------------------------------
\* main.py:285-292
NewJob(j, t) ==
    [id |-> j, status |-> "pending", progress |-> 0,
     output_url |-> None, error |-> None, created_at |-> t]

\* a start that forgets to set the status / the first checkpoint
StartedJob_NoStatus(job) == [job EXCEPT !.progress = 10]
StartedJob_NoProgress(job) == [job EXCEPT !.status = "processing"]

\* main.py:148-149
StartedJob(job) == [job EXCEPT !.status = "processing", !.progress = 10]

\* main.py:154, 158, 164, 196
WithProgress(job, p) == [job EXCEPT !.progress = p]

\* a completion that forgets the download handle
CompletedJob_NoUrl(job) == [job EXCEPT !.status = "completed", !.progress = 100]

\* a completion that leaves the progress at the last checkpoint
CompletedJob_NoProgress(job) ==
    [job EXCEPT !.status = "completed", !.output_url = <<"/api/download/", job.id>>]

\* main.py:202-204
CompletedJob(job) ==
    [job EXCEPT !.status = "completed", !.progress = 100,
                !.output_url = <<"/api/download/", job.id>>]

\* a failure text stored whole
Truncate_Whole(text) == text

\* str(e)[:500] (main.py:208); a text is <<message, length>>
Truncate(text) == <<text[1], Min(text[2], ERROR_LIMIT)>>

\* a failure handler that records the text but not the status
FailedJob_NoStatus(job, e) == [job EXCEPT !.error = Truncate(e)]

\* main.py:207-208
FailedJob(job, e) == [job EXCEPT !.status = "failed", !.error = Truncate(e)]

\* the exceptions process_video can have in flight
KeyError(j) == <<"KeyError", 38>>
FFmpegFailed(n) == <<"FFmpeg processing failed", 26 + n>>
OutputMissing == <<"Output file was not created", 27>>
\* the text call_qwen_api returns (main.py:140); its content is not used afterwards
Instructions == <<"instructions">>

\* the store, the disk and the tasks after start-up
InitStore ==
    /\ jobs = << >>
    /\ files = {}
    /\ used = {}
    /\ pc = [j \in JobIds |-> "none"]
    /\ exc = [j \in JobIds |-> None]
    /\ running = {}
    /\ now = 0
    /\ swallowed = {}
    /\ ai_response = [j \in JobIds |-> None]

\* The text of the prompt reaches nothing but the body of the lookup request
\* (main.py:125), so the jobs are followed with the empty prompt, and the prompt
\* handling of edit_video is followed on its own under SanitizeSpec.
Init ==
    /\ InitStore
    /\ prompt = << >>
    /\ sanitized_prompt = << >>

\* ---- the clock ---------------------------------------------------------
\* Time passes while the blocking transcode runs, and while the loop is free and has
\* no task ready to start (a chain that waits for its lookup is not ready; a chain
\* that is queued is, and the free loop starts it at once); the other steps of a task
\* take no time worth modelling.  The code reads the clock only
\* to stamp a new record and to compare the stamps of the stored records with it
\* (main.py:223-225), so only the time that passes while the store holds a record
\* can be observed, and only that time is modelled.
Tick ==
    /\ now < MaxTicks * TickStep
    /\ DOMAIN jobs # {}
    /\ \A j \in running : pc[j] = "ffmpeg"
    /\ running = {} => \A j \in JobIds : pc[j] # "queued"
    /\ now' = now + TickStep
    /\ UNCHANGED <<jobs, files, used, pc, exc, running, swallowed, ai_response, prompt,
                   sanitized_prompt>>

\* ---- edit_video (main.py:240-298) --------------------------------------
\* main.py:99-105: TRUE when the upload's content type is accepted
validate_video_file(content_type) ==
    content_type # "" /\ content_type \in ALLOWED_VIDEO_TYPES

\* an upload loop entered after the job record was initialised: an upload over the
\* cap is refused with the record already in the store
SaveUpload_JobFirst(size, fault) ==
    IF fault = "open"
    THEN [code |-> 500, id |-> TRUE, file |-> FALSE, job |-> FALSE]
    ELSE IF fault = "write" /\ size > 0
    THEN [code |-> 500, id |-> TRUE, file |-> TRUE, job |-> FALSE]
    ELSE IF size > MAX_FILE_SIZE
    THEN [code |-> 400, id |-> TRUE, file |-> FALSE, job |-> TRUE]
    ELSE [code |-> 200, id |-> TRUE, file |-> TRUE, job |-> TRUE]

\* The upload loop of main.py:264-278.  The running total after each chunk is the
\* number of bytes read so far, so the cap is exceeded at some chunk exactly when the
\* upload is larger than MAX_FILE_SIZE.  `fault` is the I/O call that raises, if any:
\* "open" (main.py:265), "write" (main.py:274), "remove" (main.py:269).
\* Result: the status code, whether uuid4 was called, whether the input file is on
\* disk afterwards, and whether the handler goes on to create the job.
SaveUpload(size, fault) ==
    IF fault = "open"
    THEN [code |-> 500, id |-> TRUE, file |-> FALSE, job |-> FALSE]
    ELSE IF fault = "write" /\ size > 0
    THEN [code |-> 500, id |-> TRUE, file |-> TRUE, job |-> FALSE]
    ELSE IF size > MAX_FILE_SIZE
    THEN IF fault = "remove"
         THEN [code |-> 500, id |-> TRUE, file |-> TRUE, job |-> FALSE]
         ELSE [code |-> 400, id |-> TRUE, file |-> FALSE, job |-> FALSE]
    ELSE [code |-> 200, id |-> TRUE, file |-> TRUE, job |-> TRUE]

\* main.py:251-278: what the handler does with a submission before it creates the job
SubmitOutcome(video, content_type, size, fault) ==
    IF ~video
    THEN [code |-> 400, id |-> FALSE, file |-> FALSE, job |-> FALSE]
    ELSE IF ~validate_video_file(content_type)
    THEN [code |-> 400, id |-> FALSE, file |-> FALSE, job |-> FALSE]
    ELSE SaveUpload(size, fault)

edit_video(video, content_type, size, fault) ==
    /\ running = {}
    /\ LET o == SubmitOutcome(video, content_type, size, fault) IN
       IF ~o.id
       THEN UNCHANGED vars
       ELSE /\ used # JobIds
            /\ LET job_id == uuid4 IN
               /\ used' = used \cup {job_id}
               /\ files' = IF o.file THEN files \cup {video_path(job_id)} ELSE files
               /\ jobs' = IF o.job
                          THEN [k \in DOMAIN jobs \cup {job_id} |->
                                  IF k = job_id THEN NewJob(job_id, now) ELSE jobs[k]]
                          ELSE jobs
               \* main.py:295-296: process_video, then cleanup_old_jobs
               /\ pc' = IF o.job THEN [pc EXCEPT ![job_id] = "queued"] ELSE pc
            /\ UNCHANGED <<exc, running, now, swallowed, ai_response, prompt,
                           sanitized_prompt>>

\* ---- process_video (main.py:143-216) -----------------------------------
InStore(j) == j \in DOMAIN jobs

\* an update that drops the record of a job when it records its failure
Update_PopFailed(j, job) ==
    IF job.status = "failed"
    THEN [k \in DOMAIN jobs \ {j} |-> jobs[k]]
    ELSE [jobs EXCEPT ![j] = job]

\* jobs[job_id][...] = ... on a record that exists
Update(j, job) == [jobs EXCEPT ![j] = job]

\* a start that creates the record when it is missing (jobs.setdefault)
PV_Start_Setdefault(j, has_key) ==
    /\ pc[j] = "queued" /\ running = {}
    /\ jobs' = [k \in DOMAIN jobs \cup {j} |->
                  IF k = j
                  THEN StartedJob(IF InStore(j) THEN jobs[j] ELSE NewJob(j, now))
                  ELSE jobs[k]]
    /\ pc' = [pc EXCEPT ![j] = IF has_key THEN "ai_wait" ELSE "ai_err"]
    /\ running' = IF has_key THEN {} ELSE {j}
    /\ UNCHANGED <<files, used, exc, now, swallowed, ai_response, prompt, sanitized_prompt>>

\* main.py:148-153: the task starts; with no OLLAMA_API_KEY call_qwen_api raises at
\* main.py:114 without suspending, otherwise the task suspends in client.post
PV_Start(j, has_key) ==
    /\ pc[j] = "queued" /\ running = {}
    /\ IF InStore(j)
       THEN /\ jobs' = Update(j, StartedJob(jobs[j]))
            /\ pc' = [pc EXCEPT ![j] = IF has_key THEN "ai_wait" ELSE "ai_err"]
            /\ running' = IF has_key THEN {} ELSE {j}
            /\ exc' = exc
       ELSE /\ pc' = [pc EXCEPT ![j] = "except"]
            /\ exc' = [exc EXCEPT ![j] = KeyError(j)]
            /\ running' = {j}
            /\ jobs' = jobs
    /\ UNCHANGED <<files, used, now, swallowed, ai_response, prompt, sanitized_prompt>>

\* the awaited call returns (ok), and its text is bound to ai_response, or it raises
\* (network error, timeout, bad status), and ai_response stays unbound
PV_Resume(j, ok) ==
    /\ pc[j] = "ai_wait" /\ running = {}
    /\ running' = {j}
    /\ pc' = [pc EXCEPT ![j] = IF ok THEN "ai_ok" ELSE "ai_err"]
    /\ ai_response' = IF ok THEN [ai_response EXCEPT ![j] = Instructions] ELSE ai_response
    /\ UNCHANGED <<jobs, files, used, exc, now, swallowed, prompt, sanitized_prompt>>

\* main.py:154; a KeyError here is caught by the handler of main.py:155
PV_AiOk(j) ==
    /\ pc[j] = "ai_ok" /\ running = {j}
    /\ IF InStore(j)
       THEN /\ jobs' = Update(j, WithProgress(jobs[j], 30))
            /\ pc' = [pc EXCEPT ![j] = "p50"]
       ELSE /\ jobs' = jobs
            /\ pc' = [pc EXCEPT ![j] = "ai_err"]
    /\ UNCHANGED <<files, used, exc, running, now, swallowed, ai_response, prompt,
                   sanitized_prompt>>

\* a handler that lets the failure of the lookup fail the job
PV_AiFailed_Fatal(j) ==
    /\ pc[j] = "ai_err" /\ running = {j}
    /\ pc' = [pc EXCEPT ![j] = "except"]
    /\ exc' = [exc EXCEPT ![j] = <<"AI API error", 12>>]
    /\ UNCHANGED <<jobs, files, used, running, now, swallowed, ai_response, prompt,
                   sanitized_prompt>>

\* main.py:155-158; a KeyError here leaves the inner try and reaches main.py:206
PV_AiFailed(j) ==
    /\ pc[j] = "ai_err" /\ running = {j}
    /\ IF InStore(j)
       THEN /\ jobs' = Update(j, WithProgress(jobs[j], 30))
            /\ pc' = [pc EXCEPT ![j] = "p50"]
            /\ exc' = exc
       ELSE /\ jobs' = jobs
            /\ pc' = [pc EXCEPT ![j] = "except"]
            /\ exc' = [exc EXCEPT ![j] = KeyError(j)]
    /\ UNCHANGED <<files, used, running, now, swallowed, ai_response, prompt,
                   sanitized_prompt>>

\* main.py:161-164
PV_Progress50(j) ==
    /\ pc[j] = "p50" /\ running = {j}
    /\ IF InStore(j)
       THEN /\ jobs' = Update(j, WithProgress(jobs[j], 50))
            /\ pc' = [pc EXCEPT ![j] = "ffmpeg"]
            /\ exc' = exc
       ELSE /\ jobs' = jobs
            /\ pc' = [pc EXCEPT ![j] = "except"]
            /\ exc' = [exc EXCEPT ![j] = KeyError(j)]
    /\ UNCHANGED <<files, used, running, now, swallowed, ai_response, prompt,
                   sanitized_prompt>>

\* main.py:167-194: the blocking transcode.  ffmpeg either returns, having written
\* the output file ("written") or not ("nothing"), or it raises ffmpeg.Error with n
\* characters of text and no output file ("error").
PV_Transcode(j, outcome, n) ==
    /\ pc[j] = "ffmpeg" /\ running = {j}
    /\ files' = IF outcome = "written" THEN files \cup {output_path(j)} ELSE files
    /\ IF outcome # "error"
       THEN /\ pc' = [pc EXCEPT ![j] = "p90"]
            /\ exc' = exc
       ELSE /\ pc' = [pc EXCEPT ![j] = "except"]
            /\ exc' = [exc EXCEPT ![j] = FFmpegFailed(n)]
    /\ UNCHANGED <<jobs, used, running, now, swallowed, ai_response, prompt,
                   sanitized_prompt>>

\* main.py:196
PV_Progress90(j) ==
    /\ pc[j] = "p90" /\ running = {j}
    /\ IF InStore(j)
       THEN /\ jobs' = Update(j, WithProgress(jobs[j], 90))
            /\ pc' = [pc EXCEPT ![j] = "verify"]
            /\ exc' = exc
       ELSE /\ jobs' = jobs
            /\ pc' = [pc EXCEPT ![j] = "except"]
            /\ exc' = [exc EXCEPT ![j] = KeyError(j)]
    /\ UNCHANGED <<files, used, running, now, swallowed, ai_response, prompt,
                   sanitized_prompt>>

\* main.py:199: output_path.exists()
OutputExists(j) == output_path(j) \in files

\* a verification that does not look at the disk
PV_Verify_NoCheck(j) ==
    /\ pc[j] = "verify" /\ running = {j}
    /\ pc' = [pc EXCEPT ![j] = "complete"]
    /\ UNCHANGED <<jobs, files, used, exc, running, now, swallowed, ai_response,
                   prompt, sanitized_prompt>>

\* main.py:198-200
PV_Verify(j) ==
    /\ pc[j] = "verify" /\ running = {j}
    /\ IF OutputExists(j)
       THEN /\ pc' = [pc EXCEPT ![j] = "complete"]
            /\ exc' = exc
       ELSE /\ pc' = [pc EXCEPT ![j] = "except"]
            /\ exc' = [exc EXCEPT ![j] = OutputMissing]
    /\ UNCHANGED <<jobs, files, used, running, now, swallowed, ai_response, prompt,
                   sanitized_prompt>>

\* main.py:202-204
PV_Complete(j) ==
    /\ pc[j] = "complete" /\ running = {j}
    /\ IF InStore(j)
       THEN /\ jobs' = Update(j, CompletedJob(jobs[j]))
            /\ pc' = [pc EXCEPT ![j] = "finally"]
            /\ exc' = exc
       ELSE /\ jobs' = jobs
            /\ pc' = [pc EXCEPT ![j] = "except"]
            /\ exc' = [exc EXCEPT ![j] = KeyError(j)]
    /\ UNCHANGED <<files, used, running, now, swallowed, ai_response, prompt,
                   sanitized_prompt>>

\* main.py:206-208: the handler records the failure; when the record is gone its own
\* jobs[job_id] raises KeyError, which stays in flight through the finally block
PV_Except(j) ==
    /\ pc[j] = "except" /\ running = {j}
    /\ IF InStore(j)
       THEN /\ jobs' = Update(j, FailedJob(jobs[j], exc[j]))
            /\ exc' = [exc EXCEPT ![j] = None]
       ELSE /\ jobs' = jobs
            /\ exc' = [exc EXCEPT ![j] = KeyError(j)]
    /\ pc' = [pc EXCEPT ![j] = "finally"]
    /\ UNCHANGED <<files, used, running, now, swallowed, ai_response, prompt,
                   sanitized_prompt>>

\* a cleanup placed at the end of the try block: it runs on the success path only
RemoveInput_OnSuccess(j, remove_fails) ==
    IF video_path(j) \in files /\ ~remove_fails
       /\ InStore(j) /\ jobs[j].status = "completed"
    THEN files \ {video_path(j)} ELSE files

\* a cleanup that removes the input files of all jobs, not only its own
RemoveInput_AllInputs(j, remove_fails) ==
    IF remove_fails THEN files ELSE files \ {video_path(k) : k \in JobIds}

\* main.py:212-216: os.remove may raise, which is swallowed
RemoveInput(j, remove_fails) ==
    IF video_path(j) \in files /\ ~remove_fails THEN files \ {video_path(j)} ELSE files

\* main.py:215-216: the exception of os.remove, if it is called and raises
RemoveRaised(j, remove_fails) ==
    IF video_path(j) \in files /\ remove_fails THEN {video_path(j)} ELSE {}

\* main.py:210-216, then the task exits (its locals go with it): normally, and the
\* chain goes on to cleanup_old_jobs, or with the exception in flight, which ends the
\* chain
PV_Finally(j, remove_fails) ==
    /\ pc[j] = "finally" /\ running = {j}
    /\ files' = RemoveInput(j, remove_fails)
    /\ swallowed' = swallowed \cup RemoveRaised(j, remove_fails)
    /\ IF exc[j] = None
       THEN /\ pc' = [pc EXCEPT ![j] = "cleanup"]
            /\ running' = running
       ELSE /\ pc' = [pc EXCEPT ![j] = "crashed"]
            /\ running' = {}
    /\ ai_response' = [ai_response EXCEPT ![j] = None]
    /\ UNCHANGED <<jobs, used, exc, now, prompt, sanitized_prompt>>

\* ---- cleanup_old_jobs (main.py:219-232) --------------------------------
\* a sweep that also reaps failed jobs, whatever their age
Expired_OrFailed(job, current_time) ==
    job.created_at < current_time - RETENTION \/ job.status = "failed"

\* a sweep that also takes the jobs that are exactly one window old
Expired_Inclusive(job, current_time) == job.created_at <= current_time - RETENTION

\* main.py:225
Expired(job, current_time) == job.created_at < current_time - RETENTION

\* main.py:226-231: the output files the sweep deletes; unlink may raise for the
\* jobs in unlink_fails, which is swallowed
Unlinked(evicted, unlink_fails) ==
    {output_path(k) : k \in evicted \ unlink_fails}

\* main.py:232: the records the sweep deletes
Deleted(evicted, unlink_fails) == evicted

cleanup_old_jobs(j, unlink_fails) ==
    /\ pc[j] = "cleanup" /\ running = {j}
    /\ LET evicted == {k \in DOMAIN jobs : Expired(jobs[k], now)} IN
       /\ unlink_fails \subseteq {k \in evicted : OutputExists(k)}
       /\ files' = files \ Unlinked(evicted, unlink_fails)
       /\ jobs' = [k \in DOMAIN jobs \ Deleted(evicted, unlink_fails) |-> jobs[k]]
       \* main.py:230-231
       /\ swallowed' = swallowed \cup {output_path(k) : k \in unlink_fails}
    /\ pc' = [pc EXCEPT ![j] = "done"]
    /\ running' = {}
    /\ UNCHANGED <<used, exc, now, ai_response, prompt, sanitized_prompt>>

\* ---- get_job_status (main.py:301-319) ----------------------------------
\* is_uuid: whether uuid.UUID(job_id) parses
StatusResponse(job_id, is_uuid) ==
    IF ~is_uuid THEN [code |-> 400, body |-> None]
    ELSE IF ~InStore(job_id) THEN [code |-> 404, body |-> None]
    ELSE [code |-> 200,
          body |-> [id |-> jobs[job_id].id, status |-> jobs[job_id].status,
                    progress |-> jobs[job_id].progress,
                    output_url |-> jobs[job_id].output_url,
                    error |-> jobs[job_id].error]]

get_job_status(job_id, is_uuid) ==
    /\ running = {}
    /\ StatusResponse(job_id, is_uuid).code \in {200, 400, 404}
    /\ UNCHANGED vars

\* ---- download_video (main.py:322-345) ----------------------------------
\* a handler that serves whatever output file is on disk, without the status check
DownloadResponse_NoStatus(job_id, is_uuid) ==
    IF ~is_uuid THEN [code |-> 400, detail |-> "Invalid job ID format"]
    ELSE IF ~InStore(job_id) THEN [code |-> 404, detail |-> "Job not found"]
    ELSE IF ~OutputExists(job_id)
    THEN [code |-> 404, detail |-> "Output file not found"]
    ELSE [code |-> 200, detail |-> "file"]

DownloadResponse(job_id, is_uuid) ==
    IF ~is_uuid THEN [code |-> 400, detail |-> "Invalid job ID format"]
    ELSE IF ~InStore(job_id) THEN [code |-> 404, detail |-> "Job not found"]
    ELSE IF jobs[job_id].status # "completed"
    THEN [code |-> 400, detail |-> "Video processing not complete"]
    ELSE IF ~OutputExists(job_id)
    THEN [code |-> 404, detail |-> "Output file not found"]
    ELSE [code |-> 200, detail |-> "file"]

download_video(job_id, is_uuid) ==
    /\ running = {}
    /\ DownloadResponse(job_id, is_uuid).code \in {200, 400, 404}
    /\ UNCHANGED vars

\* ---- the system --------------------------------------------------------
Pipeline(j) ==
    \/ \E has_key \in BOOLEAN : PV_Start(j, has_key)
    \/ \E ok \in BOOLEAN : PV_Resume(j, ok)
    \/ PV_AiOk(j)
    \/ PV_AiFailed(j)
    \/ PV_Progress50(j)
    \/ \E outcome \in {"written", "nothing", "error"}, n \in StderrLens :
          PV_Transcode(j, outcome, n)
    \/ PV_Progress90(j)
    \/ PV_Verify(j)
    \/ PV_Complete(j)
    \/ PV_Except(j)
    \/ \E remove_fails \in BOOLEAN : PV_Finally(j, remove_fails)

Sweep(j) == \E unlink_fails \in SUBSET JobIds : cleanup_old_jobs(j, unlink_fails)

Submit ==
    \E r \in Submissions : edit_video(r.video, r.content_type, r.size, r.fault)

Query ==
    \E job_id \in JobIds, is_uuid \in BOOLEAN :
        get_job_status(job_id, is_uuid) \/ download_video(job_id, is_uuid)

Next ==
    \/ Submit
    \/ \E j \in JobIds : Pipeline(j)
    \/ \E j \in JobIds : Sweep(j)
    \/ Query
    \/ Tick

Spec == Init /\ [][Next]_vars

\* the background chain of one submission: its two tasks are run one after the
\* other by a single coroutine (main.py:295-296)
Chain(j) == Pipeline(j) \/ Sweep(j)

\* The event loop runs every task that is ready, and every awaited external call
\* returns: each step of each background chain is taken once it stays enabled.
FairSpec == Spec /\ \A j \in JobIds : WF_vars(Chain(j))

\* ---- the prompt of a submission (main.py:243, 281, 295) ----------------
\* A prompt is the sequence of its characters.
JAVASCRIPT == <<"j", "a", "v", "a", "s", "c", "r", "i", "p", "t", ":">>
\* the words prompts are put together from: the scheme in lower and in mixed case,
\* its two halves, the angle brackets, a blank and a letter
Words ==
    {JAVASCRIPT,
     <<"J", "a", "v", "a", "S", "c", "r", "i", "p", "t", ":">>,
     <<"j", "a", "v", "a">>, <<"s", "c", "r", "i", "p", "t", ":">>,
     <<"<">>, <<">">>, <<" ">>, <<"x">>}
\* the lengths of the run of letters a prompt starts with: none, and one character
\* short of the limit
PadLens == {0, MAX_PROMPT - 1}
Pad(n) == [i \in 1 .. n |-> "x"]

RECURSIVE Concat(_)
Concat(ws) == IF ws = << >> THEN << >> ELSE Head(ws) \o Concat(Tail(ws))

\* the prompts a client submits
Prompts ==
    {Pad(n) \o Concat(ws) :
        n \in PadLens, ws \in UNION {[1 .. k -> Words] : k \in 0 .. MaxWords}}

\* Form(..., max_length=2000) (main.py:243): a longer prompt is refused before the
\* handler runs
FormAccepts(p) == Len(p) <= MAX_PROMPT

NotAngle(c) == c \notin {"<", ">"}
\* re.sub(r'[<>]', '', prompt)
RemoveAngle(p) == SelectSeq(p, NotAngle)
\* p[:n]
Slice(p, n) == SubSeq(p, 1, Min(Len(p), n))
\* p.strip()
RECURSIVE LStrip(_)
LStrip(p) == IF p # << >> /\ Head(p) = " " THEN LStrip(Tail(p)) ELSE p
RECURSIVE RStrip(_)
RStrip(p) ==
    IF p # << >> /\ p[Len(p)] = " " THEN RStrip(SubSeq(p, 1, Len(p) - 1)) ELSE p
Strip(p) == RStrip(LStrip(p))

\* main.py:281
Sanitized(p) == Strip(Slice(RemoveAngle(p), MAX_PROMPT))

\* edit_video's handling of the prompt: the form validation, the sanitization and the
\* hand-over to process_video (main.py:243, 281, 295)
edit_video_prompt ==
    /\ sanitized_prompt = << >>
    /\ IF FormAccepts(prompt)
       THEN sanitized_prompt' = <<Sanitized(prompt)>>
       ELSE sanitized_prompt' = sanitized_prompt
    /\ UNCHANGED <<jobs, files, used, pc, exc, running, now, swallowed, ai_response,
                   prompt>>

SanitizeInit ==
    /\ InitStore
    /\ prompt \in Prompts
    /\ sanitized_prompt = << >>

SanitizeNext == edit_video_prompt

SanitizeSpec == SanitizeInit /\ [][SanitizeNext]_vars

\* ======================================================================
\* Properties
\* ======================================================================
StatusSteps ==
    {<<"pending", "processing">>, <<"processing", "completed">>,
     <<"processing", "failed">>}

\* C1: a job's status only moves pending -> processing -> completed or
\* pending -> processing -> failed: every step of the system leaves the status of a
\* stored job unchanged or takes one of these three moves (so no status is revisited,
\* a terminal status is never left and pending never becomes terminal directly), and
\* a record only ever enters the store as pending under an identifier never used before.
C1_StatusOrder ==
    [][\A j \in JobIds :
         /\ (InStore(j) /\ j \in DOMAIN jobs') =>
               \/ jobs'[j].status = jobs[j].status
               \/ <<jobs[j].status, jobs'[j].status>> \in StatusSteps
         /\ (~InStore(j) /\ j \in DOMAIN jobs') =>
               j \notin used /\ jobs'[j].status = "pending"]_vars

C1_Witness ==
    \E j \in DOMAIN jobs, k \in DOMAIN jobs :
        jobs[j].status = "completed" /\ jobs[k].status = "failed"

ProgressSteps == {<<0, 10>>, <<10, 30>>, <<30, 50>>, <<50, 90>>, <<90, 100>>}

\* C2: while a job is not terminal, the progress a status query returns for it never
\* decreases from one state to the next, and it changes only from one checkpoint to
\* the following one in the order 0, 10, 30, 50, 90, 100.
C2_ProgressOrder ==
    [][\A j \in JobIds :
         (InStore(j) /\ j \in DOMAIN jobs' /\ jobs[j].status \notin Terminal) =>
             LET p == StatusResponse(j, TRUE).body.progress
                 q == StatusResponse(j, TRUE)'.body.progress
             IN  q >= p /\ (q = p \/ <<p, q>> \in ProgressSteps)]_vars

C2_Witness ==
    \E j \in DOMAIN jobs :
        /\ running = {}
        /\ StatusResponse(j, TRUE).body.progress = 100
        /\ StatusResponse(j, TRUE).body.status = "completed"

\* C3: a completed or failed job has exactly one of output_url and error; a pending
\* or processing job has neither.
C3_OneOutcome ==
    \A j \in DOMAIN jobs :
        /\ jobs[j].status \in Terminal =>
              (jobs[j].output_url # None) # (jobs[j].error # None)
        /\ jobs[j].status \in {"pending", "processing"} =>
              jobs[j].output_url = None /\ jobs[j].error = None

C3_Witness ==
    \E j \in DOMAIN jobs, k \in DOMAIN jobs :
        /\ jobs[j].status = "completed" /\ jobs[j].output_url # None
        /\ jobs[k].status = "failed" /\ jobs[k].error # None
        /\ jobs[k].output_url = None

\* C4: a completed job has its output_url, its output file is on disk and
\* download_video returns the file; a failed job has its error and download_video
\* answers 400 "Video processing not complete".
C4_Download ==
    \A j \in DOMAIN jobs :
        /\ jobs[j].status = "completed" =>
              /\ jobs[j].output_url # None
              /\ OutputExists(j)
              /\ DownloadResponse(j, TRUE).code = 200
        /\ jobs[j].status = "failed" =>
              /\ jobs[j].error # None
              /\ DownloadResponse(j, TRUE) =
                    [code |-> 400, detail |-> "Video processing not complete"]

C4_Witness ==
    \E j \in DOMAIN jobs, k \in DOMAIN jobs :
        /\ running = {}
        /\ jobs[j].status = "completed" /\ DownloadResponse(j, TRUE).code = 200
        /\ jobs[k].status = "failed" /\ DownloadResponse(k, TRUE).code = 400

\* C5 (as stated): once a job is processing it eventually has a terminal status
\* recorded in the store, whatever the sweeps do.
C5_Original ==
    \A j \in JobIds :
        (InStore(j) /\ jobs[j].status = "processing")
            ~> (InStore(j) /\ jobs[j].status \in Terminal)

\* C5 (amended): once a job is processing, eventually either a terminal status is
\* recorded for it in the store or a sweep has evicted its record.
C5_TerminalOrEvicted ==
    \A j \in JobIds :
        (InStore(j) /\ jobs[j].status = "processing")
            ~> (~InStore(j) \/ jobs[j].status \in Terminal)

\* a job evicted while its pipeline waits for the instruction lookup
C5_Witness ==
    \E j \in JobIds : pc[j] = "ai_wait" /\ ~InStore(j) /\ j \in used

\* the age of a stored job
Age(j) == now - jobs[j].created_at

\* a step of some chain's cleanup_old_jobs
SweepStep == \E k \in JobIds : pc[k] = "cleanup" /\ pc'[k] = "done"

\* C6 (as stated): a failed job keeps its status and error until it is removed, and a
\* record is only ever removed once its job has a terminal status.
C6_Original ==
    [][\A j \in JobIds :
         /\ (InStore(j) /\ j \in DOMAIN jobs' /\ jobs[j].status = "failed") =>
               StatusResponse(j, TRUE)' = StatusResponse(j, TRUE)
         /\ (InStore(j) /\ j \notin DOMAIN jobs') => jobs[j].status \in Terminal]_vars

\* C6 (amended): a failed job stays in the store, with the same answer to a status
\* query (status failed and its error text), until a sweep evicts it for its age; the
\* sweep looks at the age only, so records of pending and processing jobs are removed
\* as well.
C6_FailedUntilSwept ==
    [][\A j \in JobIds :
         (InStore(j) /\ jobs[j].status = "failed") =>
             \/ /\ j \in DOMAIN jobs'
                /\ StatusResponse(j, TRUE)' = StatusResponse(j, TRUE)
             \/ /\ j \notin DOMAIN jobs'
                /\ SweepStep
                /\ Age(j) > RETENTION]_vars

C6_Witness ==
    \E j \in JobIds :
        /\ running = {}
        /\ StatusResponse(j, TRUE).code = 200
        /\ StatusResponse(j, TRUE).body.status = "failed"
        /\ StatusResponse(j, TRUE).body.error # None
        /\ Age(j) > RETENTION

\* C7 (as stated): a sweep leaves no record and no output file of any job whose age
\* exceeded 3600 seconds when the sweep ran.
C7_Original ==
    [][SweepStep =>
         \A j \in DOMAIN jobs :
             Age(j) > RETENTION =>
                 j \notin DOMAIN jobs' /\ output_path(j) \notin files']_vars

\* C8 (as stated): no record has been evicted while its output file is still on disk.
C8_Original ==
    \A j \in JobIds :
        (pc[j] # "none" /\ ~InStore(j)) => ~OutputExists(j)

\* the exits of process_video: normal (the chain goes on) or with an exception
Exited == {"cleanup", "done", "crashed"}

\* C9 (as stated): once process_video has exited, on any path, the job's input file
\* is not on disk.
C9_Original ==
    \A j \in JobIds : pc[j] \in Exited => video_path(j) \notin files

\* C9 (amended): once process_video has exited, on any path, the job's input file is
\* not on disk, unless os.remove raised in the finally block (the exception is
\* swallowed and the file is left).
C9_RemovedUnlessRaised ==
    \A j \in JobIds :
        pc[j] \in Exited => (video_path(j) \notin files \/ video_path(j) \in swallowed)

\* a pipeline that exited with a KeyError because its record was evicted mid-run
C9_Witness ==
    \E j \in JobIds :
        pc[j] = "crashed" /\ exc[j] = KeyError(j) /\ video_path(j) \notin files

\* C10: a submission that edit_video refuses (any answer other than 200) leaves the
\* job store as it was and schedules no background task.
C10_RejectedNoJob ==
    [][\A r \in Submissions :
         (/\ edit_video(r.video, r.content_type, r.size, r.fault)
          /\ SubmitOutcome(r.video, r.content_type, r.size, r.fault).code # 200)
             => jobs' = jobs /\ pc' = pc]_vars

\* an identifier was generated for an upload that was then refused
C10_Witness ==
    \E j \in used : pc[j] = "none" /\ ~InStore(j) /\ video_path(j) \notin files

\* the positions of process_video between the lookup and the completion
AfterLookup == {"p50", "ffmpeg", "p90", "verify", "complete"}

\* C11: a failed lookup does not fail the job.  The handler of the failure only sets
\* progress to 30 and goes on to the format step; from there a pipeline whose lookup
\* failed (ai_response unbound) shows progress 30, then 50, then 90 with status
\* processing, and when the transcode has left its output file the job is completed
\* with progress 100.
C11_LookupNotFatal ==
    /\ [][\A j \in JobIds :
            (pc[j] = "ai_err" /\ InStore(j)) =>
                /\ pc'[j] = "p50"
                /\ jobs[j].status = "processing"
                /\ jobs'[j] = [jobs[j] EXCEPT !.progress = 30]]_vars
    /\ [](\A j \in DOMAIN jobs :
            ai_response[j] = None =>
                /\ pc[j] \in AfterLookup =>
                      jobs[j].status = "processing" /\ jobs[j].error = None
                /\ pc[j] = "p50" => jobs[j].progress = 30
                /\ pc[j] \in {"ffmpeg", "p90"} => jobs[j].progress = 50
                /\ pc[j] \in {"verify", "complete"} => jobs[j].progress = 90
                /\ (pc[j] = "finally" /\ OutputExists(j)) =>
                      jobs[j].status = "completed" /\ jobs[j].progress = 100)

\* a job completed by a pipeline whose lookup had failed
C11_Witness ==
    \E j \in DOMAIN jobs :
        /\ pc[j] = "finally" /\ ai_response[j] = None
        /\ jobs[j].status = "completed" /\ jobs[j].progress = 100

\* C12: for a well-formed identifier download_video returns the file exactly when the
\* job is in the store, completed, and its output file is on disk; it answers 404 for
\* an unknown job, 400 "not complete" for a pending, processing or failed job and 404
\* for a completed job whose file is missing; and it changes neither the store nor
\* any file.
C12_DownloadTable ==
    /\ [](\A j \in JobIds :
            LET r == DownloadResponse(j, TRUE) IN
            /\ r.code = 200 <=>
                  (InStore(j) /\ jobs[j].status = "completed" /\ output_path(j) \in files)
            /\ ~InStore(j) => r.code = 404
            /\ (InStore(j) /\ jobs[j].status \in {"pending", "processing", "failed"}) =>
                  r = [code |-> 400, detail |-> "Video processing not complete"]
            /\ (InStore(j) /\ jobs[j].status = "completed" /\ output_path(j) \notin files) =>
                  r.code = 404)
    /\ [][\A j \in JobIds :
            download_video(j, TRUE) => (jobs' = jobs /\ files' = files)]_vars

\* the handler can answer for a completed job, for a job that is being processed and
\* for a job that is not in the store
C12_Witness ==
    \E j \in JobIds, k \in JobIds :
        /\ running = {}
        /\ DownloadResponse(j, TRUE).code = 200
        /\ InStore(k) /\ jobs[k].status = "processing"
        /\ DownloadResponse(k, TRUE).code = 400

\* C13: a record leaves the store only in a step of cleanup_old_jobs: every other step
\* (of edit_video, process_video, get_job_status, download_video, the clock) keeps
\* every record that is in the store.
C13_OnlySweepDeletes ==
    [][~SweepStep => \A j \in DOMAIN jobs : j \in DOMAIN jobs']_vars

\* a job that went through its whole pipeline and its chain's sweep is still in the
\* store, while another chain has been through its steps as well
C13_Witness ==
    \E j \in DOMAIN jobs, k \in JobIds :
        /\ j # k
        /\ pc[j] = "done" /\ jobs[j].status \in Terminal
        /\ pc[k] \in {"done", "crashed"}

\* job k's record and artifacts are the same before and after a step
Untouched(k) ==
    /\ (k \in DOMAIN jobs') <=> InStore(k)
    /\ InStore(k) => jobs'[k] = jobs[k]
    /\ (video_path(k) \in files') <=> (video_path(k) \in files)
    /\ (output_path(k) \in files') <=> (output_path(k) \in files)

\* C14 (as stated): every submitted job reaches a terminal status, whatever the other
\* jobs do.
C14_Original ==
    \A j \in JobIds :
        (InStore(j) /\ jobs[j].status = "pending")
            ~> (InStore(j) /\ jobs[j].status \in Terminal)

\* C14 (amended): jobs get distinct identifiers (a record enters the store under an
\* identifier never issued before, and carries it); no step of one job's process_video,
\* its failure included, changes the record or the artifacts of another job; and every
\* submitted job eventually has a terminal status unless a sweep has evicted its
\* record first.
C14_Independent ==
    /\ [][\A j \in JobIds :
            /\ (~InStore(j) /\ j \in DOMAIN jobs') => (j \notin used /\ jobs'[j].id = j)
            /\ Pipeline(j) => \A k \in JobIds \ {j} : Untouched(k)]_vars
    /\ \A j \in JobIds :
           (InStore(j) /\ jobs[j].status = "pending")
               ~> (~InStore(j) \/ jobs[j].status \in Terminal)

\* one job has failed while another, submitted before the failure, is in the middle
\* of its pipeline with its record and its input file as its own steps left them
C14_Witness ==
    \E j \in DOMAIN jobs, k \in DOMAIN jobs :
        /\ pc[j] = "ai_wait" /\ jobs[j].status = "processing" /\ jobs[j].progress = 10
        /\ video_path(j) \in files
        /\ pc[k] = "done" /\ jobs[k].status = "failed"
        /\ jobs[j].created_at <= jobs[k].created_at

\* str.lower() on the characters of the model
Lower(c) == CASE c = "J" -> "j" [] c = "S" -> "s" [] OTHER -> c
LowerCase(p) == [i \in 1 .. Len(p) |-> Lower(p[i])]
\* w occurs in p
Contains(p, w) ==
    \E i \in 1 .. (Len(p) - Len(w) + 1) : SubSeq(p, i, i + Len(w) - 1) = w

\* C15 (as stated): every prompt handed to process_video has at most 2000 characters
\* and contains no '<', no '>' and, in any letter case, no 'javascript:'.
C15_Original ==
    \A i \in DOMAIN sanitized_prompt :
        LET p == sanitized_prompt[i] IN
        /\ Len(p) <= MAX_PROMPT
        /\ \A k \in DOMAIN p : p[k] \notin {"<", ">"}
        /\ ~Contains(LowerCase(p), JAVASCRIPT)

\* the failures of the transcode stage: the executor raised, or it returned and the
\* output file is not there
TranscodeFailures == {"FFmpeg processing failed", "Output file was not created"}

\* C16: a failure of the transcode stage fails the job.  A verification that finds no
\* output file raises; with a transcode failure in flight the next step records
\* status failed and the failure text cut to at most 500 characters, and leaves
\* output_url absent and the progress as it was; and a job that is failed never has
\* an output_url, a longer error text, or, later, another status.
C16_TranscodeFatal ==
    /\ [][\A j \in JobIds :
            /\ (pc[j] = "verify" /\ output_path(j) \notin files) =>
                  (pc'[j] = "except" /\ exc'[j][1] \in TranscodeFailures)
            /\ (pc[j] = "except" /\ exc[j][1] \in TranscodeFailures) =>
                  /\ j \in DOMAIN jobs /\ j \in DOMAIN jobs'
                  /\ jobs'[j].status = "failed"
                  /\ jobs'[j].error[1] = exc[j][1]
                  /\ jobs'[j].error[2] = Min(exc[j][2], ERROR_LIMIT)
                  /\ jobs'[j].output_url = None
                  /\ jobs'[j].progress = jobs[j].progress
            /\ (j \in DOMAIN jobs /\ j \in DOMAIN jobs' /\ jobs[j].status = "failed") =>
                  jobs'[j] = jobs[j]]_vars
    /\ [](\A j \in DOMAIN jobs :
            jobs[j].status = "failed" =>
                /\ jobs[j].error[1] \in TranscodeFailures
                /\ jobs[j].error[2] <= ERROR_LIMIT
                /\ jobs[j].output_url = None)

\* one job failed by an executor error whose text was cut to 500 characters, another
\* by a missing output file
C16_Witness ==
    \E j \in DOMAIN jobs, k \in DOMAIN jobs :
        /\ jobs[j].status = "failed"
        /\ jobs[j].error = <<"FFmpeg processing failed", ERROR_LIMIT>>
        /\ jobs[k].status = "failed"
        /\ jobs[k].error = OutputMissing

\* C17: a sweep evicts exactly the stored jobs whose created_at is less than the
\* sweep time minus 3600, whatever their status; it leaves the records it keeps as
\* they are, adds no file and deletes no file other than output files of the jobs it
\* evicts; and no step at all removes a record whose age is at most 3600.
C17_SweepExact ==
    [][/\ SweepStep =>
            /\ \A j \in DOMAIN jobs :
                  /\ (j \notin DOMAIN jobs') <=> (jobs[j].created_at < now - RETENTION)
                  /\ (j \in DOMAIN jobs') => jobs'[j] = jobs[j]
            /\ DOMAIN jobs' \subseteq DOMAIN jobs
            /\ files' \subseteq files
            /\ files \ files' \subseteq {output_path(j) : j \in DOMAIN jobs \ DOMAIN jobs'}
       /\ \A j \in DOMAIN jobs :
            now - jobs[j].created_at <= RETENTION => j \in DOMAIN jobs']_vars

\* after a sweep at time 7200: the job created at 3600 is kept, at the age of exactly
\* one window, and the older job has been evicted while its pipeline had not finished
C17_Witness ==
    \E j \in JobIds, k \in DOMAIN jobs :
        /\ pc[k] = "done" /\ now - jobs[k].created_at = RETENTION
        /\ pc[j] \in {"queued", "ai_wait"} /\ j \notin DOMAIN jobs

\* C18: the status of a stored job determines its possible progress values: pending
\* 0; processing 10, 30, 50 or 90; completed 100; failed 50 or 90.
C18_StatusProgress ==
    \A j \in DOMAIN jobs :
        /\ jobs[j].status = "pending" => jobs[j].progress = 0
        /\ jobs[j].status = "processing" => jobs[j].progress \in {10, 30, 50, 90}
        /\ jobs[j].status = "completed" => jobs[j].progress = 100
        /\ jobs[j].status = "failed" => jobs[j].progress \in {50, 90}

\* a job failed at each of the two checkpoints, next to each other
C18_Witness ==
    \E j \in DOMAIN jobs, k \in DOMAIN jobs :
        /\ jobs[j].status = "failed" /\ jobs[j].progress = 50
        /\ jobs[k].status = "failed" /\ jobs[k].progress = 90

\* C19: an identifier that has been issued and is not in the store (its record was
\* evicted, or its upload was refused) never enters the store again.  A process_video
\* instance of an evicted job faults with KeyError at its next write instead of
\* inserting, is never at a position between the lookup and the completion, and no
\* step creates the job's output file.
C19_EvictedStaysGone ==
    /\ [][\A j \in used :
            j \notin DOMAIN jobs =>
                /\ j \notin DOMAIN jobs'
                /\ output_path(j) \in files' => output_path(j) \in files
                /\ (pc[j] \in {"queued", "ai_err"} /\ pc'[j] # pc[j]) =>
                      (pc'[j] = "except" /\ exc'[j][1] = "KeyError")]_vars
    /\ [](\A j \in used : pc[j] \in AfterLookup => j \in DOMAIN jobs)

\* a pipeline has run to its end for an evicted job, which has no record and no
\* output file, while the store holds the record of a later job
C19_Witness ==
    \E j \in used, k \in DOMAIN jobs :
        /\ j < k
        /\ pc[j] = "crashed" /\ j \notin DOMAIN jobs
        /\ output_path(j) \notin files

\* C20 (as stated): a submission that was given an identifier and created no job has
\* left no input file <job_id>_input.mp4 on disk.
C20_Original ==
    \A j \in used : pc[j] = "none" => video_path(j) \notin files

====
